---- MODULE Spec2Model ----
(***************************************************************************)
(* Drowsiness pipeline of the eye-detection application:                   *)
(*   EyeDetector   (src/src/utils/eyeDetection.ts)                         *)
(*   App           (src/unnamed/part_003, the EyeDetector version of App)  *)
(*   WebcamCapture (src/unnamed/part_002, the setInterval version)         *)
(*   AlertSystem   (src/src/components/AlertSystem.tsx, lines 1-200)       *)
(*                                                                         *)
(* Numbers.  Landmark coordinates are integers; the frames fed to the      *)
(* model are chosen so that every squared distance the ratio reads is a    *)
(* perfect square, hence Math.sqrt is exact on them.  A ratio is an IEEE   *)
(* value of one of three kinds: a finite non-negative fraction num/den in  *)
(* lowest terms, +Infinity, or NaN.                                        *)
(*                                                                         *)
(* Time.  One Tick is one second: the capture interval of WebcamCapture    *)
(* (setInterval(captureFrame, 1000)); the cue timer of AlertSystem         *)
(* (setTimeout(..., 2000)) is two Ticks.                                   *)
(***************************************************************************)
EXTENDS Integers, Sequences, FiniteSets

\* ------------------------------------------------------------------ bounds
\* closedEyeFrameCount is unbounded in the code; frames that would take it
\* past MaxCount are not fed.
MaxCount == 25
\* alertCount is unbounded in the code; steps that would take it past
\* MaxAlerts are not taken.
MaxAlerts == 4
\* Detections (estimateFaces calls) that may be pending at once.
MaxInFlight == 2
\* getUserMedia calls that may be pending for effect runs already cleaned up;
\* detection is not switched off when that would leave more.
MaxStaleRequests == 2
\* rises of isDrowsy after which the window is no longer resized
MaxEdges == 2

\* ------------------------------------------------------- program constants
\* EAR_THRESHOLD = 0.25, held in hundredths.
EAR_THRESHOLD == 25
CONSECUTIVE_FRAMES_THRESHOLD == 20
\* setTimeout(() => setIsPlaying(false), 2000), in seconds.
CUE_DURATION == 2

leftEyeIndices ==
  <<33, 7, 163, 144, 145, 153, 154, 155, 133, 173, 157, 158, 159, 160, 161, 246>>
rightEyeIndices ==
  <<362, 382, 381, 380, 374, 373, 390, 249, 263, 466, 388, 387, 386, 385, 384, 398>>

\* ------------------------------------------------------------- IEEE ratios
RECURSIVE Gcd(_, _)
Gcd(a, b) == IF b = 0 THEN a ELSE Gcd(b, a % b)

\* The finite value n/d (n >= 0, d > 0), in lowest terms.
Fin(n, d) ==
  LET g == Gcd(n, d) IN [kind |-> "fin", num |-> n \div g, den |-> d \div g]
Zero == Fin(0, 1)
Infinity == [kind |-> "inf", num |-> 1, den |-> 0]
NaN == [kind |-> "nan", num |-> 0, den |-> 0]

\* IEEE division x / y of two non-negative integers.
Divide(x, y) ==
  IF y # 0 THEN Fin(x, y) ELSE IF x = 0 THEN NaN ELSE Infinity

\* (a + b) / 2 on non-negative IEEE values.
Average(a, b) ==
  IF a.kind = "nan" \/ b.kind = "nan" THEN NaN
  ELSE IF a.kind = "inf" \/ b.kind = "inf" THEN Infinity
  ELSE Fin(a.num * b.den + b.num * a.den, 2 * a.den * b.den)

\* Math.sqrt on a perfect square.
Sqrt(n) == CHOOSE r \in 0..n : r * r = n

\* mutant of GreaterThanThreshold: >= in place of >
GreaterOrEqualThreshold(ear) ==
  CASE ear.kind = "nan" -> FALSE
    [] ear.kind = "inf" -> TRUE
    [] OTHER -> ear.num * 100 >= EAR_THRESHOLD * ear.den

\* ear > this.EAR_THRESHOLD  (NaN compares false, Infinity true)
GreaterThanThreshold(ear) ==
  CASE ear.kind = "nan" -> FALSE
    [] ear.kind = "inf" -> TRUE
    [] OTHER -> ear.num * 100 > EAR_THRESHOLD * ear.den

\* ---------------------------------------------------------------- EyeDetector
euclideanDistance(point1, point2) ==
  LET dx == point1[1] - point2[1]
      dy == point1[2] - point2[2]
  IN Sqrt(dx * dx + dy * dy)

\* Positions are the list's own order; the code's [k] is [k + 1] here.
calculateEAR(eyeLandmarks) ==
  IF Len(eyeLandmarks) < 6 THEN Zero
  ELSE LET d1 == euclideanDistance(eyeLandmarks[2], eyeLandmarks[6])
           d2 == euclideanDistance(eyeLandmarks[3], eyeLandmarks[5])
           d3 == euclideanDistance(eyeLandmarks[1], eyeLandmarks[4])
       IN Divide(d1 + d2, 2 * d3)

EyeIndices(eye) == IF eye = "left" THEN leftEyeIndices ELSE rightEyeIndices

\* keypoints[index] is undefined for an index the detector did not return,
\* and reading point.x of it throws.
getEyeLandmarksThrows(keypoints, eye) ==
  \E j \in 1..Len(EyeIndices(eye)) : EyeIndices(eye)[j] \notin DOMAIN keypoints

getEyeLandmarks(keypoints, eye) ==
  [j \in 1..Len(EyeIndices(eye)) |-> keypoints[EyeIndices(eye)[j]]]

getDefaultResult(faceDetected) ==
  [leftEye |-> [isOpen |-> TRUE],
   rightEye |-> [isOpen |-> TRUE],
   faceDetected |-> faceDetected,
   eyeAspectRatio |-> [left |-> Zero, right |-> Zero, average |-> Zero]]

\* mutant of isDrowsyAt: > in place of >=
isDrowsyAtStrict(count) == count > CONSECUTIVE_FRAMES_THRESHOLD

\* isDrowsy(), as a function of closedEyeFrameCount
isDrowsyAt(count) == count >= CONSECUTIVE_FRAMES_THRESHOLD

\* mutant of TrackClosedFrames: an open frame leaves the count as it is
TrackClosedFramesNoReset(count, bothEyesOpen) ==
  IF ~bothEyesOpen THEN count + 1 ELSE count

\* mutant of TrackClosedFrames: at the threshold a closed frame takes the
\* count one down instead of up
TrackClosedFramesBounces(count, bothEyesOpen) ==
  IF ~bothEyesOpen
  THEN (IF count >= CONSECUTIVE_FRAMES_THRESHOLD THEN count - 1 ELSE count + 1)
  ELSE 0

\* mutant of TrackClosedFrames: the count starts over once the alert is on
TrackClosedFramesWraps(count, bothEyesOpen) ==
  IF ~bothEyesOpen
  THEN (IF count >= CONSECUTIVE_FRAMES_THRESHOLD THEN 0 ELSE count + 1)
  ELSE 0

\* if (!bothEyesOpen) closedEyeFrameCount++ else closedEyeFrameCount = 0
TrackClosedFrames(count, bothEyesOpen) ==
  IF ~bothEyesOpen THEN count + 1 ELSE 0

\* mutant of resetFrameCount: the count is left as it is
resetFrameCountKeeps(count) == count

\* resetFrameCount(): closedEyeFrameCount = 0
resetFrameCount(count) == 0

\* What a detectEyes call leaves: the new closedEyeFrameCount and either the
\* returned result (threw = FALSE) or an exception thrown to the caller.
Returned(count, result) == [count |-> count, result |-> result, threw |-> FALSE]
Thrown(count) == [count |-> count, result |-> getDefaultResult(FALSE), threw |-> TRUE]

\* mutant of detectEyesNoFace: an absent face counts as a closed frame
detectEyesNoFaceCounts(count) == Returned(count + 1, getDefaultResult(FALSE))

\* if (faces.length === 0) return this.getDefaultResult(false)
detectEyesNoFace(count) == Returned(count, getDefaultResult(FALSE))

\* mutant of detectEyesCatch: the error is thrown on to the caller
detectEyesCatchRethrows(count) == Thrown(count)

\* mutant of detectEyesCatch: a failure sets the count to 0
detectEyesCatchResets(count) == Returned(0, getDefaultResult(FALSE))

\* catch (error) { return this.getDefaultResult(false) }
detectEyesCatch(count) == Returned(count, getDefaultResult(FALSE))

\* The body of detectEyes once faces[0] is there and both landmark lists
\* were read.  Of the result, the landmark lists and the bounding boxes,
\* which only the display reads, are left out.
detectEyesFace(count, keypoints) ==
  LET leftEyeLandmarks == getEyeLandmarks(keypoints, "left")
      rightEyeLandmarks == getEyeLandmarks(keypoints, "right")
      leftEAR == calculateEAR(leftEyeLandmarks)
      rightEAR == calculateEAR(rightEyeLandmarks)
      averageEAR == Average(leftEAR, rightEAR)
      leftEyeOpen == GreaterThanThreshold(leftEAR)
      rightEyeOpen == GreaterThanThreshold(rightEAR)
      bothEyesOpen == leftEyeOpen /\ rightEyeOpen
  IN Returned(TrackClosedFrames(count, bothEyesOpen),
        [leftEye |-> [isOpen |-> leftEyeOpen],
         rightEye |-> [isOpen |-> rightEyeOpen],
         faceDetected |-> TRUE,
         eyeAspectRatio |->
           [left |-> leftEAR, right |-> rightEAR, average |-> averageEAR]])

\* detectEyes on a loaded detector.  frame is what the detector does with
\* the image: outcome "throw" (fromPixels or estimateFaces fails) or
\* "faces" with the list of faces, each a map from landmark index to point.
\* This is the part of detectEyes after its 'model not loaded' check.
detectEyes(count, frame) ==
  IF frame.outcome = "throw" THEN detectEyesCatch(count)
  ELSE IF Len(frame.faces) = 0 THEN detectEyesNoFace(count)
  ELSE LET keypoints == frame.faces[1].keypoints IN
       IF getEyeLandmarksThrows(keypoints, "left")
          \/ getEyeLandmarksThrows(keypoints, "right")
       THEN detectEyesCatch(count)
       ELSE detectEyesFace(count, keypoints)

\* ---------------------------------------------------------------- AlertSystem
\* mutant of getAlertLevel: the critical boundary one too high
getAlertLevelLate(closedEyeDuration) ==
  IF closedEyeDuration >= 21 THEN "critical"
  ELSE IF closedEyeDuration >= 15 THEN "high"
  ELSE IF closedEyeDuration >= 10 THEN "medium"
  ELSE IF closedEyeDuration >= 5 THEN "warning"
  ELSE "normal"

\* mutant of getAlertLevel: the labels of two tiers exchanged
getAlertLevelSwapped(closedEyeDuration) ==
  IF closedEyeDuration >= 20 THEN "critical"
  ELSE IF closedEyeDuration >= 15 THEN "medium"
  ELSE IF closedEyeDuration >= 10 THEN "high"
  ELSE IF closedEyeDuration >= 5 THEN "warning"
  ELSE "normal"

getAlertLevel(closedEyeDuration) ==
  IF closedEyeDuration >= 20 THEN "critical"
  ELSE IF closedEyeDuration >= 15 THEN "high"
  ELSE IF closedEyeDuration >= 10 THEN "medium"
  ELSE IF closedEyeDuration >= 5 THEN "warning"
  ELSE "normal"

\* playAlertSound, called with setIsPlaying(true) just queued.  ok says
\* whether the audio calls succeed; on success the 2 s timer is set, on
\* failure the catch queues setIsPlaying(false).
\* The history fields record the call: cueStarts and cueFailures count the
\* calls by outcome, cueWhilePlaying whether a cue was ever started by a
\* render whose isPlaying was true, playingFor the seconds isPlaying has
\* been true since the flag was last set (counted up to CUE_DURATION + 1).
setIsPlayingFalse(a) == [a EXCEPT !.isPlaying = FALSE, !.playingFor = 0]

\* mutant of playAlertSound: no timer is set after the cue is started
playAlertSoundNoTimer(a, ok) ==
  IF ok THEN [a EXCEPT !.isPlaying = TRUE, !.playingFor = 0,
                       !.cueStarts = @ + 1,
                       !.cueWhilePlaying = @ \/ a.isPlaying]
  ELSE [setIsPlayingFalse(a) EXCEPT !.cueFailures = @ + 1]

\* mutant of playAlertSound: the catch leaves isPlaying as it was set
playAlertSoundCatchKeeps(a, ok) ==
  IF ok THEN [a EXCEPT !.isPlaying = TRUE, !.playingFor = 0,
                       !.timers = Append(@, CUE_DURATION),
                       !.cueStarts = @ + 1,
                       !.cueWhilePlaying = @ \/ a.isPlaying]
  ELSE [a EXCEPT !.isPlaying = TRUE, !.playingFor = 0, !.cueFailures = @ + 1]

playAlertSound(a, ok) ==
  IF ok THEN [a EXCEPT !.isPlaying = TRUE, !.playingFor = 0,
                       !.timers = Append(@, CUE_DURATION),
                       !.cueStarts = @ + 1,
                       !.cueWhilePlaying = @ \/ a.isPlaying]
  ELSE [setIsPlayingFalse(a) EXCEPT !.cueFailures = @ + 1]

\* mutant of AlertEffect: the cue is started without looking at isPlaying
AlertEffectNoDebounce(a, isDrowsyProp, ok) ==
  IF isDrowsyProp
  THEN playAlertSound([a EXCEPT !.alertCount = @ + 1, !.lastAlertTime = "date"], ok)
  ELSE setIsPlayingFalse(a)

\* mutant of AlertEffect: the alert is counted without its time
AlertEffectNoTimestamp(a, isDrowsyProp, ok) ==
  IF isDrowsyProp
  THEN LET counted == [a EXCEPT !.alertCount = @ + 1]
       IN IF ~a.isPlaying THEN playAlertSound(counted, ok) ELSE counted
  ELSE setIsPlayingFalse(a)

\* One run of the effect with the props and state of the render it belongs
\* to; the queued state updates are applied together afterwards.
AlertEffect(a, isDrowsyProp, ok) ==
  IF isDrowsyProp
  THEN LET counted == [a EXCEPT !.alertCount = @ + 1, !.lastAlertTime = "date"]
       IN IF ~a.isPlaying THEN playAlertSound(counted, ok) ELSE counted
  ELSE setIsPlayingFalse(a)

\* A render of AlertSystem with prop isDrowsy, followed by its effect when a
\* dependency ([isDrowsy, isPlaying]) differs from the last run's, and by
\* the renders the effect's own state updates cause, until nothing changes.
RECURSIVE Render(_, _, _)
Render(a, isDrowsyProp, ok) ==
  IF a.deps = <<isDrowsyProp, a.isPlaying>> THEN a
  ELSE Render(AlertEffect([a EXCEPT !.deps = <<isDrowsyProp, a.isPlaying>>],
                          isDrowsyProp, ok),
              isDrowsyProp, ok)

\* --------------------------------------------------------------- frames fed
\* An eye's 16 landmarks in list order: the corners [0] = (0,0) and
\* [3] = (w,0), the lid pairs [1] = p1 with [5] = (0,0) and [2] = (4,h2)
\* with [4] = (4,0); the ten further points, which no ratio reads, sit on
\* the first corner.
EyeShape(w, p1, h2) ==
  [j \in 1..16 |->
     CASE j = 2 -> p1
       [] j = 3 -> <<4, h2>>
       [] j = 4 -> <<w, 0>>
       [] j = 5 -> <<4, 0>>
       [] OTHER -> <<0, 0>>]

Shape(name) ==
  CASE name = "open" -> EyeShape(8, <<3, 4>>, 4)     \* (5 + 4) / 16
    [] name = "edge" -> EyeShape(8, <<0, 2>>, 2)     \* (2 + 2) / 16 = 0.25
    [] name = "shut" -> EyeShape(8, <<0, 0>>, 2)     \* (0 + 2) / 16
    [] name = "flat" -> EyeShape(0, <<3, 4>>, 0)     \* (5 + 0) / 0
    [] name = "null" -> EyeShape(0, <<0, 0>>, 0)     \* (0 + 0) / 0
EyeNames == {"open", "edge", "shut", "flat"}

IndexOf(indices, i) == CHOOSE j \in 1..Len(indices) : indices[j] = i
IndexSet(indices) == {indices[j] : j \in 1..Len(indices)}

\* The detector's keypoints for a face whose eyes have the given shapes
\* (only the eye indices, the only ones the program reads).
Keypoints(left, right) ==
  [i \in IndexSet(leftEyeIndices) \cup IndexSet(rightEyeIndices) |->
     IF i \in IndexSet(leftEyeIndices)
     THEN left[IndexOf(leftEyeIndices, i)]
     ELSE right[IndexOf(rightEyeIndices, i)]]

\* A frame is named by what the detector makes of it: kind "throw"
\* (fromPixels or estimateFaces fails), "noface", "face" with the two eyes'
\* shapes, or "missing": a face whose keypoints lack the first left-eye index.
FrameId(kind, left, right) == [kind |-> kind, left |-> left, right |-> right]
NoFaceFrame == FrameId("noface", "-", "-")
ThrowFrame == FrameId("throw", "-", "-")
MissingFrame == FrameId("missing", "open", "shut")
NoFrame == FrameId("none", "-", "-")
FaceFrames ==
  {FrameId("face", l, r) : l \in EyeNames, r \in EyeNames}
    \cup {FrameId("face", "null", "open")}
Frames == FaceFrames \cup {NoFaceFrame, ThrowFrame, MissingFrame}

DetectorOutput(id) ==
  LET kp == Keypoints(Shape(id.left), Shape(id.right)) IN
  CASE id.kind = "throw" -> [outcome |-> "throw", faces |-> <<>>]
    [] id.kind = "noface" -> [outcome |-> "faces", faces |-> <<>>]
    [] id.kind = "face" -> [outcome |-> "faces", faces |-> <<[keypoints |-> kp]>>]
    [] id.kind = "missing" ->
         [outcome |-> "faces",
          faces |-> <<[keypoints |->
                         [i \in DOMAIN kp \ {leftEyeIndices[1]} |-> kp[i]]]>>]
DetectorOutputs == [id \in Frames |-> DetectorOutput(id)]

\* detectEyes, tabulated over the counts and frames the model feeds it.
detectEyesTable ==
  [count \in 0..MaxCount, id \in Frames |-> detectEyes(count, DetectorOutputs[id])]

\* ------------------------------------------------- model loading, capture
\* mutant of loadModel: isLoaded is set before the awaited steps
loadModelFlagsFirst(d, ok) ==
  IF ok THEN [detector |-> "set", isLoaded |-> TRUE, thrown |-> ""]
  ELSE [detector |-> d.detector, isLoaded |-> TRUE,
        thrown |-> "Failed to load eye detection model"]

\* loadModel on a detector d = [detector, isLoaded].  ok says whether the
\* awaited steps (setBackend, ready, createDetector) all succeed; thrown is
\* the message of the error the call ends with ("" when it returns).
loadModel(d, ok) ==
  IF ok THEN [detector |-> "set", isLoaded |-> TRUE, thrown |-> ""]
  ELSE [detector |-> d.detector, isLoaded |-> d.isLoaded,
        thrown |-> "Failed to load eye detection model"]

\* mutant of detectorIsModelLoaded: the detector always says it is loaded
detectorIsModelLoadedAlways(loaded) == TRUE

\* EyeDetector.isModelLoaded(), of a detector whose isLoaded is loaded
detectorIsModelLoaded(loaded) == loaded

\* detectEyes: if (!this.detector || !this.isLoaded) throw new
\* Error('Eye detection model not loaded')
detectEyesNotLoaded(det, loaded) == det = "null" \/ ~loaded

\* mutant of CaptureEffect: an interval, once set, is never cleared
CaptureEffectNeverClears(t, capturing) ==
  IF capturing THEN [intervalRef |-> "live", live |-> t.live + 1] ELSE t

\* One run of WebcamCapture's capture effect on timer state t =
\* [intervalRef, live], with capturing = isActive && isWebcamActive of the
\* render it belongs to: first the cleanup of the previous run, which clears
\* the interval intervalRef.current names and leaves the id in the ref, then
\* the effect body.  Clearing an id already cleared does nothing.
CaptureEffect(t, capturing) ==
  LET cleaned == IF t.intervalRef = "live"
                 THEN [intervalRef |-> "cleared", live |-> t.live - 1]
                 ELSE t
  IN IF capturing THEN [intervalRef |-> "live", live |-> cleaned.live + 1]
     ELSE IF cleaned.intervalRef # "null"
     THEN [intervalRef |-> "null",
           live |-> IF cleaned.intervalRef = "live" THEN cleaned.live - 1
                    ELSE cleaned.live]
     ELSE cleaned

\* A render of WebcamCapture: the capture effect runs again when one of its
\* dependencies <<isActive, isWebcamActive>> differs from the last render's
\* (onFrame, the third, is the same callback at every render of App).
CaptureRender(t, oldDeps, newDeps) ==
  IF oldDeps = newDeps THEN t ELSE CaptureEffect(t, newDeps[1] /\ newDeps[2])

\* ------------------------------------------------------------------- state
VARIABLES
  detector,             \* EyeDetector: "null", or "set" by loadModel
  isLoaded,             \* EyeDetector
  closedEyeFrameCount,  \* EyeDetector
  isLoading,            \* App: loadModel pending
  isModelLoaded,        \* App
  isDetectionActive,    \* App
  eyeDetectionResult,   \* App
  inFlight,             \* detectEyes calls awaiting estimateFaces
  isWebcamActive,       \* WebcamCapture
  camRequest,           \* stream of the current [isActive] effect run:
                        \*   "none", "pending" (getUserMedia awaited), "held"
  staleRequests,        \* getUserMedia calls of effect runs already cleaned up
  cameraError,          \* WebcamCapture: error # '' (the video is unmounted)
  captureTimer,         \* WebcamCapture: intervalRef.current ("null", the id
                        \*   of a "live" interval or of a "cleared" one) and
                        \*   the number of intervals set and not cleared
  isDrowsy,             \* AlertSystem prop, as App last rendered it
  closedEyeDuration,    \* AlertSystem prop, as App last rendered it
  alert,                \* AlertSystem: alertCount, isPlaying, lastAlertTime,
                        \*   the pending cue timers (seconds left), the
                        \*   dependencies of the effect's last run, and the
                        \*   history of the playAlertSound calls
  frameErrors,          \* App: errors handleFrame caught from detectEyes
  lastFrame,            \* history: the last frame processed since the count
                        \*   was last reset by toggleDetection (NoFrame: none)
  prevCount,            \* history: closedEyeFrameCount before that frame
  closedRun,            \* history: frames returned with a face and not both
                        \*   eyes open since the last one with both open, or
                        \*   since the reset
  risingEdges,          \* history: false -> true changes of the isDrowsy prop
  playbackFailed,       \* history: some playAlertSound call has failed
  overtaken,            \* history: pending detectEyes calls started before
                        \*   one that has already completed
  zeroedBy,             \* history: what has set closedEyeFrameCount to 0
                        \*   since isDrowsy last rose: "open" (a frame with
                        \*   both eyes open), else "reset" (toggleDetection),
                        \*   else "none"; "none" before the first rise
  replay,               \* a detector fed one frame sequence twice, each
                        \*   time after resetFrameCount (SpecReplay only)
  refusals              \* history: how the calls made so far on an
                        \*   application without a model have ended; empty
                        \*   again once the model is loaded

vars ==
  <<isLoaded, closedEyeFrameCount, isLoading, isModelLoaded, isDetectionActive,
    eyeDetectionResult, inFlight, isWebcamActive, camRequest, staleRequests,
    cameraError, isDrowsy, closedEyeDuration, alert, frameErrors, lastFrame,
    prevCount, closedRun, risingEdges, playbackFailed, overtaken, zeroedBy,
    replay, detector, captureTimer, refusals>>

detectorVars == <<detector, isLoaded, closedEyeFrameCount>>
cameraVars == <<isWebcamActive, camRequest, staleRequests, cameraError, captureTimer>>
alertVars == <<isDrowsy, closedEyeDuration, alert, risingEdges, playbackFailed>>

\* AlertSystem as useState leaves it at mount, before its effect has run.
AlertSystemMounted ==
  [alertCount |-> 0, isPlaying |-> FALSE, lastAlertTime |-> "null",
   timers |-> <<>>, deps |-> <<FALSE, FALSE>>,
   cueStarts |-> 0, cueFailures |-> 0, cueWhilePlaying |-> FALSE,
   playingFor |-> 0]

InitApp ==
  /\ detector = "null"
  /\ isLoaded = FALSE
  /\ closedEyeFrameCount = 0
  /\ isLoading = TRUE
  /\ isModelLoaded = FALSE
  /\ isDetectionActive = FALSE
  /\ eyeDetectionResult = getDefaultResult(FALSE)
  /\ inFlight = 0
  /\ isWebcamActive = FALSE
  /\ camRequest = "none"
  /\ staleRequests = 0
  /\ cameraError = FALSE
  /\ captureTimer = [intervalRef |-> "null", live |-> 0]
  /\ isDrowsy = FALSE
  /\ closedEyeDuration = 0
  /\ alert = AlertSystemMounted
  /\ frameErrors = 0
  /\ lastFrame = NoFrame
  /\ prevCount = 0
  /\ closedRun = 0
  /\ risingEdges = 0
  /\ playbackFailed = FALSE
  /\ overtaken = 0
  /\ zeroedBy = "none"
  /\ refusals = {}

\* No replay is under way in the application.
NoReplay ==
  [phase |-> "idle", left |-> 0, frame |-> NoFrame,
   first |-> Returned(0, getDefaultResult(FALSE)),
   second |-> Returned(0, getDefaultResult(FALSE))]

Init == InitApp /\ replay = NoReplay

\* AlertSystem renders from state a with prop isDrowsyProp.  Whether the
\* audio calls succeed is a choice only where playAlertSound is called.
AlertRender(a, isDrowsyProp) ==
  \E ok \in IF Render(a, isDrowsyProp, TRUE) = Render(a, isDrowsyProp, FALSE)
             THEN {TRUE} ELSE BOOLEAN :
    /\ alert' = Render(a, isDrowsyProp, ok)
    /\ alert'.alertCount <= MaxAlerts
    /\ playbackFailed' = (playbackFailed \/ ~ok)

\* A render of App: isDrowsy and closedEyeDuration are read off the detector
\* and handed to AlertSystem.
AppRender ==
  /\ isDrowsy' = isDrowsyAt(closedEyeFrameCount')
  /\ closedEyeDuration' = closedEyeFrameCount'
  /\ risingEdges' = IF ~isDrowsy /\ isDrowsy' THEN risingEdges + 1 ELSE risingEdges
  /\ AlertRender(alert, isDrowsy')

\* const alertLevel = getAlertLevel(), of the props last rendered
alertLevel == getAlertLevel(closedEyeDuration)

historyVars == <<lastFrame, prevCount, closedRun>>
pipelineVars == <<overtaken, zeroedBy, replay, refusals>>

\* ------------------------------------------------------------------ actions
\* App's mount effect: loadModel resolves (detector set, isLoaded = true),
\* then setIsModelLoaded(true) and, in finally, setIsLoading(false).
LoadModelResolves ==
  /\ isLoading
  /\ LET loaded == loadModel([detector |-> detector, isLoaded |-> isLoaded], TRUE)
     IN /\ detector' = loaded.detector
        /\ isLoaded' = loaded.isLoaded
  /\ isModelLoaded' = TRUE
  /\ isLoading' = FALSE
  /\ refusals' = {}
  /\ UNCHANGED <<closedEyeFrameCount, isDetectionActive, eyeDetectionResult,
                 inFlight, cameraVars, frameErrors, historyVars,
                 overtaken, zeroedBy, replay>>
  /\ AppRender

\* loadModel throws 'Failed to load eye detection model'; App shows the error.
LoadModelRejects ==
  /\ isLoading
  /\ LET failed == loadModel([detector |-> detector, isLoaded |-> isLoaded], FALSE)
     IN /\ detector' = failed.detector
        /\ isLoaded' = failed.isLoaded
        /\ refusals' = refusals \cup {failed.thrown}
  /\ isLoading' = FALSE
  /\ UNCHANGED <<closedEyeFrameCount, isModelLoaded, isDetectionActive,
                 eyeDetectionResult, inFlight, cameraVars, frameErrors, historyVars,
                 overtaken, zeroedBy, replay>>
  /\ AppRender

\* WebcamCapture's [isActive] effect when isActive has changed to active:
\* the cleanup of the previous run (stopWebcam on that run's own stream),
\* then this run (startWebcam, or stopWebcam on a stream not yet set).
\* The capture effect runs at the render with the new isActive and again
\* at the render setIsWebcamActive(false) causes.
CameraEffect(active) ==
  /\ cameraError' = cameraError
  /\ IF active
     THEN /\ camRequest' = "pending"
          /\ UNCHANGED <<isWebcamActive, staleRequests>>
     ELSE /\ camRequest' = "none"
          /\ isWebcamActive' = IF camRequest = "held" THEN FALSE ELSE isWebcamActive
          /\ staleRequests' =
               IF camRequest = "pending" THEN staleRequests + 1 ELSE staleRequests
  /\ captureTimer' =
       CaptureRender(CaptureRender(captureTimer,
                                   <<isDetectionActive, isWebcamActive>>,
                                   <<active, isWebcamActive>>),
                     <<active, isWebcamActive>>, <<active, isWebcamActive'>>)

\* toggleDetection
ToggleDetection ==
  IF ~isModelLoaded
  THEN /\ refusals' = refusals \cup {"toggleDetection returned"}
       /\ UNCHANGED <<detectorVars, isLoading, isModelLoaded, isDetectionActive,
                      eyeDetectionResult, inFlight, cameraVars, alertVars,
                      frameErrors, historyVars, overtaken, zeroedBy, replay>>
  ELSE /\ isDetectionActive /\ camRequest = "pending" => staleRequests < MaxStaleRequests
       /\ isDetectionActive' = ~isDetectionActive
       /\ closedEyeFrameCount' =
            IF ~isDetectionActive THEN resetFrameCount(closedEyeFrameCount)
            ELSE closedEyeFrameCount
       /\ CameraEffect(~isDetectionActive)
       /\ UNCHANGED <<detector, isLoaded, isLoading, isModelLoaded,
                      eyeDetectionResult, inFlight, frameErrors>>
       /\ AppRender
       /\ lastFrame' = IF ~isDetectionActive THEN NoFrame ELSE lastFrame
       /\ prevCount' = IF ~isDetectionActive THEN 0 ELSE prevCount
       /\ closedRun' = IF ~isDetectionActive THEN 0 ELSE closedRun
       /\ zeroedBy' = IF ~isDetectionActive /\ risingEdges > 0 /\ zeroedBy = "none"
                      THEN "reset" ELSE zeroedBy
       /\ UNCHANGED <<overtaken, replay, refusals>>

\* getUserMedia settles, for the current effect run (stale = FALSE) or for
\* a run cleaned up while it was pending (stale = TRUE).
CameraSettles(stale, granted) ==
  /\ IF stale
     THEN /\ staleRequests > 0
          /\ staleRequests' = staleRequests - 1
          /\ camRequest' = camRequest
     ELSE /\ camRequest = "pending"
          /\ camRequest' = IF granted THEN "held" ELSE "none"
          /\ staleRequests' = staleRequests
  /\ IF granted
     THEN \* if (videoRef.current) { ...; setIsWebcamActive(true); setError('') }
          /\ isWebcamActive' = IF cameraError THEN isWebcamActive ELSE TRUE
          /\ cameraError' = cameraError
     ELSE \* catch: setError('Unable to access webcam. ...')
          /\ cameraError' = TRUE
          /\ isWebcamActive' = isWebcamActive
  /\ captureTimer' = CaptureRender(captureTimer,
                                   <<isDetectionActive, isWebcamActive>>,
                                   <<isDetectionActive, isWebcamActive'>>)
  /\ UNCHANGED <<detectorVars, isLoading, isModelLoaded, isDetectionActive,
                 eyeDetectionResult, inFlight, alertVars, frameErrors, historyVars,
                 pipelineVars>>

CameraGranted == CameraSettles(FALSE, TRUE)
CameraDenied == CameraSettles(FALSE, FALSE)
StaleCameraGranted == CameraSettles(TRUE, TRUE)
StaleCameraDenied == CameraSettles(TRUE, FALSE)

\* handleFrame up to its await, when a frame is delivered to it (delivered)
\* and when none is: detectEyes is called unless the detector says it has no
\* model, and the call is left pending unless it throws at once.
HandleFrame(delivered) ==
  LET \* handleFrame: if (!detector.isModelLoaded()) return
      called == delivered /\ detectorIsModelLoaded(isLoaded)
      notLoaded == detectEyesNotLoaded(detector, isLoaded)
  IN /\ inFlight' = IF called /\ ~notLoaded THEN inFlight + 1 ELSE inFlight
     /\ frameErrors' = IF called /\ notLoaded THEN frameErrors + 1 ELSE frameErrors
     /\ refusals' = IF delivered /\ ~called
                    THEN refusals \cup {"handleFrame returned"}
                    ELSE IF called /\ notLoaded
                    THEN refusals \cup {"Eye detection model not loaded"}
                    ELSE refusals

\* One second passes: pending cue timers come a second nearer, and the
\* capture interval, which exists while isActive && isWebcamActive, calls
\* captureFrame; with the video mounted and ready it hands a frame to
\* handleFrame, which starts detectEyes when the model is loaded.
Tick ==
  /\ \A i \in 1..Len(alert.timers) : alert.timers[i] > 0
  /\ alert' = [alert EXCEPT !.timers = [i \in 1..Len(@) |-> @[i] - 1],
                            !.playingFor =
                               IF ~alert.isPlaying THEN 0
                               ELSE IF @ > CUE_DURATION THEN @ ELSE @ + 1]
  /\ \E ready \in BOOLEAN :
       LET captured == /\ captureTimer.live > 0
                       /\ isDetectionActive /\ isWebcamActive /\ ~cameraError /\ ready
       IN /\ ready => inFlight < MaxInFlight
          /\ HandleFrame(captured)
  /\ UNCHANGED <<detectorVars, isLoading, isModelLoaded, isDetectionActive,
                 eyeDetectionResult, cameraVars, isDrowsy, closedEyeDuration,
                 risingEdges, playbackFailed, historyVars,
                 overtaken, zeroedBy, replay>>

\* estimateFaces of a pending detectEyes call settles, the k-th oldest of
\* those pending: detectEyes runs to its return, handleFrame stores the
\* result, App renders.
CompleteFrame(k) ==
  /\ k \in 1..inFlight
  /\ inFlight' = inFlight - 1
  /\ overtaken' = (IF k > overtaken THEN k ELSE overtaken) - 1
  /\ UNCHANGED <<replay, refusals>>
  /\ \E frame \in Frames :
       LET out == detectEyesTable[closedEyeFrameCount, frame] IN
         /\ out.count <= MaxCount
         /\ closedEyeFrameCount' = out.count
         \* handleFrame: setEyeDetectionResult(result), or catch (err)
         /\ eyeDetectionResult' = IF out.threw THEN eyeDetectionResult ELSE out.result
         /\ frameErrors' = IF out.threw THEN frameErrors + 1 ELSE frameErrors
         /\ lastFrame' = frame
         /\ prevCount' = closedEyeFrameCount
         /\ closedRun' =
              IF out.threw \/ ~out.result.faceDetected THEN closedRun
              ELSE IF out.result.leftEye.isOpen /\ out.result.rightEye.isOpen THEN 0
              ELSE closedRun + 1
         /\ zeroedBy' =
              IF ~isDrowsy /\ isDrowsyAt(out.count) THEN "none"
              ELSE IF /\ risingEdges > 0
                      /\ ~out.threw /\ out.result.faceDetected
                      /\ out.result.leftEye.isOpen /\ out.result.rightEye.isOpen
                   THEN "open"
              ELSE zeroedBy
  /\ UNCHANGED <<detector, isLoaded, isLoading, isModelLoaded, isDetectionActive,
                 cameraVars>>
  /\ AppRender

\* The pending calls settle in the order they were started.  (Which frame a
\* call saw is chosen when it completes, so for everything but overtaken
\* the order makes no difference.)
FrameCompletes == CompleteFrame(1)

\* A pending call settles before one started earlier: nothing in
\* handleFrame or detectEyes orders the two promises.
FrameOvertakes == \E k \in 2..inFlight : CompleteFrame(k)

\* A due cue timer fires: setIsPlaying(false); AlertSystem renders.
CueTimerFires ==
  /\ \E i \in 1..Len(alert.timers) :
       /\ alert.timers[i] = 0
       /\ AlertRender([setIsPlayingFalse(alert) EXCEPT
                         !.timers = SubSeq(@, 1, i - 1) \o SubSeq(@, i + 1, Len(@))],
                      isDrowsy)
  /\ UNCHANGED <<detectorVars, isLoading, isModelLoaded, isDetectionActive,
                 eyeDetectionResult, inFlight, cameraVars, isDrowsy, closedEyeDuration,
                 risingEdges, frameErrors, historyVars,
                 pipelineVars>>

\* The user switches detection on or off, but not off while the camera
\* request of the current run is still pending.
ToggleDetectionSettled ==
  /\ ~(isDetectionActive /\ camRequest = "pending")
  /\ ToggleDetection

\* The application with a camera that is granted and a user who waits for
\* it before switching detection off: no camera request is denied or
\* outlives its effect run.
Next ==
  \/ LoadModelResolves
  \/ LoadModelRejects
  \/ ToggleDetectionSettled
  \/ CameraGranted
  \/ Tick
  \/ FrameCompletes
  \/ CueTimerFires

Spec == Init /\ [][Next]_vars

\* AlertSystem's parent renders it with other props: any isDrowsy and any
\* closedEyeDuration.
ParentRenders ==
  /\ \E drowsy \in BOOLEAN, duration \in 0..MaxCount :
       /\ <<drowsy, duration>> # <<isDrowsy, closedEyeDuration>>
       /\ isDrowsy' = drowsy
       /\ closedEyeDuration' = duration
  /\ risingEdges' = IF ~isDrowsy /\ isDrowsy' THEN risingEdges + 1 ELSE risingEdges
  /\ AlertRender(alert, isDrowsy')
  /\ UNCHANGED <<detectorVars, isLoading, isModelLoaded, isDetectionActive,
                 eyeDetectionResult, inFlight, cameraVars, frameErrors, historyVars,
                 pipelineVars>>

\* The AlertSystem component on its own: its parent may pass any sequence
\* of props, at any times.
NextEmitter ==
  \/ ParentRenders
  \/ Tick
  \/ CueTimerFires

SpecEmitter == Init /\ [][NextEmitter]_vars

\* App's resize listener (checkMobile) when the window width crosses 768:
\* setIsMobile takes the other value and App returns its other layout.  In
\* that layout WebcamCapture and AlertSystem stand at other places of the
\* element tree, so both are unmounted and mounted anew: the effect
\* cleanups run (stopWebcam, clearInterval), every useState starts from its
\* initial value, and the mount effects run with the props App passes.  A
\* getUserMedia call or a cue timer left by an unmounted component finds
\* videoRef.current null or sets state of that component: it changes
\* nothing.
LayoutSwitches ==
  /\ risingEdges < MaxEdges
  /\ isWebcamActive' = FALSE
  /\ cameraError' = FALSE
  /\ staleRequests' = 0
  /\ camRequest' = IF isDetectionActive THEN "pending" ELSE "none"
  /\ captureTimer' =
       [intervalRef |-> "null",
        live |-> IF captureTimer.intervalRef = "live" THEN captureTimer.live - 1
                 ELSE captureTimer.live]
  /\ AlertRender(AlertSystemMounted, isDrowsy)
  /\ UNCHANGED <<detectorVars, isLoading, isModelLoaded, isDetectionActive,
                 eyeDetectionResult, inFlight, isDrowsy, closedEyeDuration,
                 risingEdges, frameErrors, historyVars, pipelineVars>>

\* handleFrame called with a frame by whoever holds the onFrame prop,
\* whatever the state of the camera.
HandleFrameCalled ==
  /\ inFlight < MaxInFlight
  /\ HandleFrame(TRUE)
  /\ UNCHANGED <<detectorVars, isLoading, isModelLoaded, isDetectionActive,
                 eyeDetectionResult, cameraVars, alertVars, historyVars,
                 overtaken, zeroedBy, replay>>

\* detectEyes called on a detector without a model: it throws at once.
DetectEyesRefuses ==
  /\ detectEyesNotLoaded(detector, isLoaded)
  /\ refusals' = refusals \cup {"Eye detection model not loaded"}
  /\ UNCHANGED <<detectorVars, isLoading, isModelLoaded, isDetectionActive,
                 eyeDetectionResult, inFlight, cameraVars, alertVars,
                 frameErrors, historyVars, overtaken, zeroedBy, replay>>

\* App and its detector with their handlers called at any time, before the
\* model is loaded as well as after.
NextHandlers ==
  \/ LoadModelResolves
  \/ LoadModelRejects
  \/ ToggleDetection
  \/ HandleFrameCalled
  \/ DetectEyesRefuses
  \/ FrameCompletes

SpecHandlers == Init /\ [][NextHandlers]_vars

\* WebcamCapture under App's toggle and layout switch, with every outcome
\* of the camera request; the detections the captured frames start are
\* left pending.
NextCamera ==
  \/ LoadModelResolves
  \/ LoadModelRejects
  \/ ToggleDetection
  \/ CameraGranted
  \/ CameraDenied
  \/ StaleCameraGranted
  \/ StaleCameraDenied
  \/ Tick
  \/ LayoutSwitches

SpecCamera == Init /\ [][NextCamera]_vars

\* AlertSystem under a parent that passes any props and, when the window
\* is resized across the two layouts, mounts it anew.
NextLayout ==
  \/ NextEmitter
  \/ LayoutSwitches

SpecLayout == Init /\ [][NextLayout]_vars

\* ------------------------------------------------------------------ replay
\* One detector fed a frame sequence twice, each time after
\* resetFrameCount.  The two passes are followed side by side, frame by
\* frame: first starts from a new detector, second from the detector as
\* some earlier pass left it (count left).
appVars ==
  <<isLoaded, closedEyeFrameCount, isLoading, isModelLoaded, isDetectionActive,
    eyeDetectionResult, inFlight, isWebcamActive, camRequest, staleRequests,
    cameraError, isDrowsy, closedEyeDuration, alert, frameErrors, lastFrame,
    prevCount, closedRun, risingEdges, playbackFailed, overtaken, zeroedBy,
    detector, captureTimer, refusals>>

InitReplay ==
  /\ InitApp
  /\ \E left \in 0..MaxCount :
       replay = [NoReplay EXCEPT !.phase = "dirty", !.left = left,
                                 !.second = Returned(left, getDefaultResult(FALSE))]

\* resetFrameCount() before each pass
ReplayReset ==
  /\ replay.phase = "dirty"
  /\ replay' = [replay EXCEPT !.phase = "running",
                              !.first.count = resetFrameCount(@),
                              !.second.count = resetFrameCount(@)]
  /\ UNCHANGED appVars

\* The next frame of the sequence goes through detectEyes in both passes.
ReplayFrame ==
  /\ replay.phase = "running"
  /\ \E frame \in Frames :
       LET first == detectEyesTable[replay.first.count, frame]
           second == detectEyesTable[replay.second.count, frame]
       IN /\ first.count <= MaxCount
          /\ second.count <= MaxCount
          /\ replay' = [replay EXCEPT !.frame = frame, !.first = first,
                                      !.second = second]
  /\ UNCHANGED appVars

NextReplay ==
  \/ ReplayReset
  \/ ReplayFrame

SpecReplay == InitReplay /\ [][NextReplay]_vars

\* The application with detections that may settle in any order.
NextAnyOrder ==
  \/ Next
  \/ FrameOvertakes

SpecAnyOrder == Init /\ [][NextAnyOrder]_vars

\* The application with every outcome of the camera request.
NextAnyCamera ==
  \/ Next
  \/ ToggleDetection
  \/ CameraDenied
  \/ StaleCameraGranted
  \/ StaleCameraDenied

SpecAnyCamera == Init /\ [][NextAnyCamera]_vars

\* ------------------------------------------------------------------- claims
BothOpenReturned ==
  /\ eyeDetectionResult.faceDetected
  /\ eyeDetectionResult.leftEye.isOpen
  /\ eyeDetectionResult.rightEye.isOpen

\* C1: from a fresh state, after each of the first 19 consecutive frames
\* that show a face with not both eyes open the tier is below critical and
\* isDrowsy is false; after the 20th and after every further one the tier is
\* critical and isDrowsy is true.
C1_ClosedRunTiers ==
  /\ closedRun \in 1..19 => (alertLevel # "critical" /\ ~isDrowsy)
  /\ closedRun >= 20 => (alertLevel = "critical" /\ isDrowsy)

C1_Witness ==
  /\ closedRun = 25
  /\ lastFrame = FrameId("face", "shut", "shut")
  /\ alertLevel = "critical"
  /\ isDrowsy

\* C2 (as claimed): over the first uninterrupted episode, with playback
\* succeeding, alertCount is 1 however long isDrowsy stays true.
C2_OneAlertPerEpisode ==
  (risingEdges = 1 /\ isDrowsy /\ closedRun >= 20 /\ ~playbackFailed)
    => alert.alertCount = 1

\* C3 (as claimed): alertCount goes up by one in exactly the steps in which
\* the isDrowsy prop changes from false to true, and in no other step.
C3_CountedAtRisingEdges ==
  [][alert'.alertCount =
       alert.alertCount + (IF ~isDrowsy /\ isDrowsy' THEN 1 ELSE 0)]_vars

\* C4: after a frame returned with both eyes open the count is 0 and
\* isDrowsy is false, whatever the count was before the frame.
C4_OpenFrameResets ==
  (lastFrame.kind = "face" /\ BothOpenReturned)
    => (closedEyeFrameCount = 0 /\ ~isDrowsy /\ ~isDrowsyAt(closedEyeFrameCount))

C4_Witness ==
  /\ lastFrame = FrameId("face", "open", "open")
  /\ BothOpenReturned
  /\ prevCount >= 20
  /\ closedEyeFrameCount = 0

\* C5: isDrowsy is true exactly when closedEyeFrameCount is at least 20.
C5_DrowsyIffTwenty ==
  /\ isDrowsy <=> closedEyeFrameCount >= 20
  /\ \A c \in 0..MaxCount : isDrowsyAt(c) <=> c >= 20

C5_Witness ==
  /\ closedEyeFrameCount = 20
  /\ isDrowsy

\* C6: the tier is a non-decreasing step function of the count alone:
\* normal for 0..4, warning for 5..9, medium for 10..14, high for 15..19,
\* critical from 20 on.
TierRank(tier) ==
  CASE tier = "normal" -> 0
    [] tier = "warning" -> 1
    [] tier = "medium" -> 2
    [] tier = "high" -> 3
    [] tier = "critical" -> 4

TierByRange(n) ==
  CASE n \in 0..4 -> "normal"
    [] n \in 5..9 -> "warning"
    [] n \in 10..14 -> "medium"
    [] n \in 15..19 -> "high"
    [] OTHER -> "critical"

C6_TierStepFunction ==
  /\ alertLevel = TierByRange(closedEyeFrameCount)
  /\ \A n \in 0..MaxCount :
       /\ getAlertLevel(n) = TierByRange(n)
       /\ TierRank(getAlertLevel(n)) <= TierRank(getAlertLevel(n + 1))
  /\ getAlertLevel(1000) = "critical"

C6_Witness ==
  /\ closedEyeFrameCount = 14
  /\ alertLevel = "medium"

\* C7: a frame with no face returns faceDetected = false, both eyes open and
\* all ratios 0, and leaves closedEyeFrameCount as it was.
C7_NoFaceLeavesCount ==
  lastFrame = NoFaceFrame =>
    /\ ~eyeDetectionResult.faceDetected
    /\ eyeDetectionResult.leftEye.isOpen
    /\ eyeDetectionResult.rightEye.isOpen
    /\ \A which \in {"left", "right", "average"} :
         eyeDetectionResult.eyeAspectRatio[which] = [kind |-> "fin", num |-> 0, den |-> 1]
    /\ closedEyeFrameCount = prevCount

C7_Witness ==
  /\ lastFrame = NoFaceFrame
  /\ prevCount = 19
  /\ closedEyeFrameCount = 19
  /\ ~eyeDetectionResult.faceDetected

\* C8: a frame on which the detector call fails changes neither
\* closedEyeFrameCount nor the errors handleFrame has caught, and the frame
\* after it is counted as any other: to 0 with both eyes open, one up with
\* a face and not both eyes open.
C8_DetectorFailureSkipsFrame ==
  /\ [][(inFlight' = inFlight - 1 /\ lastFrame' = ThrowFrame)
          => (closedEyeFrameCount' = closedEyeFrameCount /\ frameErrors' = frameErrors)]_vars
  /\ [][(lastFrame = ThrowFrame /\ inFlight' = inFlight - 1 /\ lastFrame'.kind = "face")
          => closedEyeFrameCount' = IF BothOpenReturned' THEN 0 ELSE closedEyeFrameCount + 1]_vars

C8_Witness ==
  /\ lastFrame = ThrowFrame
  /\ prevCount = 19
  /\ closedEyeFrameCount = 19
  /\ frameErrors = 0
  /\ isLoaded

\* C9: an eye is open exactly when its ratio is strictly above 0.25, a
\* ratio of exactly 0.25 is closed, and a frame counts as open (count to 0)
\* exactly when both ratios are above; otherwise it adds one to the count.
AboveQuarter(ear) == ear.kind = "inf" \/ (ear.kind = "fin" /\ 4 * ear.num > ear.den)

C9_StrictThreshold ==
  lastFrame.kind = "face" =>
    LET left == eyeDetectionResult.eyeAspectRatio.left
        right == eyeDetectionResult.eyeAspectRatio.right
        quarter == [kind |-> "fin", num |-> 1, den |-> 4]
    IN /\ eyeDetectionResult.leftEye.isOpen <=> AboveQuarter(left)
       /\ eyeDetectionResult.rightEye.isOpen <=> AboveQuarter(right)
       /\ closedEyeFrameCount =
            IF AboveQuarter(left) /\ AboveQuarter(right) THEN 0 ELSE prevCount + 1
       /\ lastFrame.left = "edge" => (left = quarter /\ ~eyeDetectionResult.leftEye.isOpen)
       /\ lastFrame.right = "edge" => (right = quarter /\ ~eyeDetectionResult.rightEye.isOpen)

C9_Witness ==
  /\ lastFrame = FrameId("face", "open", "edge")
  /\ eyeDetectionResult.leftEye.isOpen
  /\ ~eyeDetectionResult.rightEye.isOpen
  /\ prevCount > 0
  /\ closedEyeFrameCount = prevCount + 1

\* C10 (as claimed): an eye whose landmarks [0] and [3] coincide gets the
\* ratio 0 and is classified closed.
C10_ZeroWidthRatioIsZero ==
  (lastFrame.kind = "face" /\ lastFrame.left \in {"flat", "null"})
    => /\ eyeDetectionResult.eyeAspectRatio.left = [kind |-> "fin", num |-> 0, den |-> 1]
       /\ ~eyeDetectionResult.leftEye.isOpen

\* C11: when one eye's landmark set is indeterminate (here: the keypoints
\* lack the first left-eye index), that eye alone gets ratio 0 and
\* isOpen = true, the face is still reported, and the other eye's own ratio
\* decides the frame: a closed right eye adds 1 to closedEyeFrameCount.
C11_IndeterminateEyeAlone ==
  lastFrame = MissingFrame
    => LET rightEAR == calculateEAR(Shape(MissingFrame.right)) IN
       /\ eyeDetectionResult.faceDetected
       /\ eyeDetectionResult.leftEye.isOpen
       /\ eyeDetectionResult.eyeAspectRatio.left = Zero
       /\ eyeDetectionResult.eyeAspectRatio.right = rightEAR
       /\ eyeDetectionResult.rightEye.isOpen <=> AboveQuarter(rightEAR)
       /\ closedEyeFrameCount =
            IF AboveQuarter(rightEAR) THEN 0 ELSE prevCount + 1

\* C12: a cue is started only in a step where the isDrowsy prop rises from
\* false to true; while it stays true, frames and cue-timer expiries start
\* no further cue.
C12_CueOnlyOnRisingEdge ==
  [][alert'.cueStarts > alert.cueStarts => (~isDrowsy /\ isDrowsy')]_vars

\* C13: no cue is ever started by a render in which isPlaying is true, also
\* when isDrowsy rises a second time while the first cue's timer is pending.
C13_NoCueWhilePlaying == ~alert.cueWhilePlaying

C13_Witness ==
  /\ risingEdges >= 2
  /\ alert.cueStarts >= 2
  /\ Len(alert.timers) = 2
  /\ alert.isPlaying
  /\ ~alert.cueWhilePlaying

\* C14: at most one cue is sounding at any time, a cue sounding for
\* CUE_DURATION from its start, i.e. while its timer has time left.
C14_AtMostOneCueSounding ==
  Cardinality({i \in 1..Len(alert.timers) : alert.timers[i] > 0}) <= 1

\* C15: isPlaying is never true for longer than CUE_DURATION after it was
\* set: whenever it is true, the timer set with it is pending and due
\* CUE_DURATION after the flag was set, whether or not isDrowsy stays true.
C15_PlayingAtMostCueDuration ==
  alert.isPlaying =>
    /\ alert.playingFor <= CUE_DURATION
    /\ \E i \in 1..Len(alert.timers) :
         alert.timers[i] = CUE_DURATION - alert.playingFor

C15_Witness ==
  /\ alert.isPlaying
  /\ isDrowsy
  /\ alert.playingFor = CUE_DURATION
  /\ alert.timers = <<0>>

\* C16: once a cue has been started, isPlaying stays true until its
\* CUE_DURATION has elapsed: while the cue's timer has time left the flag
\* is true, whether isDrowsy persists or not.
C16_FlagHeldForCueDuration ==
  (\E i \in 1..Len(alert.timers) : alert.timers[i] > 0) => alert.isPlaying

\* C17: every rising edge of isDrowsy is counted and calls playAlertSound
\* once, also after earlier calls have failed; when the call fails the
\* edge is counted once and isPlaying is false afterwards.
C17_PlaybackFailureCaught ==
  [][(~isDrowsy /\ isDrowsy') =>
       /\ alert'.alertCount > alert.alertCount
       /\ alert'.cueStarts + alert'.cueFailures
            = alert.cueStarts + alert.cueFailures + 1
       /\ alert'.cueFailures > alert.cueFailures
            => (~alert'.isPlaying /\ alert'.alertCount = alert.alertCount + 1)]_vars

C17_Witness ==
  /\ risingEdges = 2
  /\ alert.cueFailures = 2
  /\ alert.alertCount = 2
  /\ isDrowsy
  /\ ~alert.isPlaying

\* C18: right after detection is started or restarted (no frame processed
\* since), closedEyeFrameCount is 0 and isDrowsy is false, whatever the
\* count was before the start.
C18_StartResets ==
  (isDetectionActive /\ lastFrame = NoFrame)
    => (closedEyeFrameCount = 0 /\ ~isDrowsy /\ closedEyeDuration = 0)

\* zeroedBy = "reset": isDrowsy had risen and since then only a start has
\* set the count to 0, so a start found a count of 20 or more; no frame
\* has been processed since the last start.
C18_Witness ==
  /\ isDetectionActive
  /\ lastFrame = NoFrame
  /\ zeroedBy = "reset"
  /\ closedEyeFrameCount = 0
  /\ ~isDrowsy

\* C19: stopping detection resets: right after the step that switches
\* detection off, closedEyeFrameCount is 0 and isDrowsy is false.
C19_StopResets ==
  [][(isDetectionActive /\ ~isDetectionActive')
       => (closedEyeFrameCount' = 0 /\ ~isDrowsy')]_vars

\* C20: at most one frame is in the pipeline at any moment: no detectEyes
\* call starts while an earlier one is pending.
C20_OneFrameAtATime == inFlight <= 1

\* C21: frames are folded into the count in the order they were delivered:
\* no detectEyes call completes while one started before it is pending.
C21_DeliveryOrder == overtaken = 0

\* C23: in every state rendered, the isDrowsy flag is true if and only if
\* the tier is critical; through normal, warning, medium and high it is
\* false.
C23_FlagIffCritical ==
  /\ isDrowsy <=> alertLevel = "critical"
  /\ alertLevel \in {"normal", "warning", "medium", "high"} => ~isDrowsy

C23_Witness ==
  /\ closedEyeDuration = CONSECUTIVE_FRAMES_THRESHOLD - 1
  /\ alertLevel = "high"
  /\ ~isDrowsy

\* C24: alertCount and lastAlertTime change only in steps where the
\* isDrowsy prop changes; cue starts, cue-timer expiries and other changes
\* of isPlaying leave them alone.
C24_StatsOnlyOnTransitions ==
  [][isDrowsy' = isDrowsy
       => /\ alert'.alertCount = alert.alertCount
          /\ alert'.lastAlertTime = alert.lastAlertTime]_vars

\* C26: the count is never reset on alert: it changes only when a
\* detection completes or detection is started, and a closed frame adds 1
\* to it at 20 and beyond as below.
C26_NoResetOnAlert ==
  [][/\ closedEyeFrameCount' # closedEyeFrameCount
          => (inFlight' < inFlight \/ (~isDetectionActive /\ isDetectionActive'))
     /\ (inFlight' < inFlight /\ lastFrame'.kind = "face" /\ ~BothOpenReturned')
          => closedEyeFrameCount' = closedEyeFrameCount + 1]_vars

C26_Witness ==
  /\ closedEyeFrameCount = CONSECUTIVE_FRAMES_THRESHOLD + 2
  /\ prevCount = CONSECUTIVE_FRAMES_THRESHOLD + 1
  /\ isDrowsy
  /\ alert.cueStarts = 2

\* C27: closedEyeFrameCount equals the number of frames returned with a
\* face and not both eyes open since the last frame with both eyes open or
\* the last reset; frames with no face or a failure neither add to the run
\* nor break it.
C27_ConsecutiveCount == closedEyeFrameCount = closedRun

C27_Witness ==
  /\ lastFrame \in {NoFaceFrame, ThrowFrame}
  /\ prevCount = 3
  /\ closedRun = 3
  /\ closedEyeFrameCount = 3

\* C28: once 20 closed frames in a row have been processed the alert is
\* raised (here: in the render that follows the 20th): isDrowsy is true,
\* the alert is counted and timed, and playAlertSound has been called.
C28_AlertRaised ==
  closedRun >= CONSECUTIVE_FRAMES_THRESHOLD
    => /\ isDrowsy
       /\ alert.alertCount >= 1
       /\ alert.lastAlertTime = "date"
       /\ alert.cueStarts + alert.cueFailures >= 1

C28_Witness ==
  /\ closedRun = CONSECUTIVE_FRAMES_THRESHOLD
  /\ prevCount = CONSECUTIVE_FRAMES_THRESHOLD - 1
  /\ isDrowsy
  /\ alert.isPlaying
  /\ alert.cueStarts = 1

\* C29: a detection started before the last reset never changes the count
\* when it completes.  While detection is on and the webcam of this start
\* is not active yet, no frame has been captured since the reset, so a
\* detection that completes then was started before it.
C29_StaleFrameIgnored ==
  [][(isDetectionActive /\ ~isWebcamActive /\ inFlight' < inFlight)
       => closedEyeFrameCount' = closedEyeFrameCount]_vars

\* C30: lastAlertTime is set if and only if alertCount > 0 (of the time
\* only whether one is set is kept, so the two being set together shows
\* as this equivalence holding in every state).
C30_TimestampIffCounted ==
  /\ alert.lastAlertTime # "null" <=> alert.alertCount > 0
  /\ alert.lastAlertTime \in {"null", "date"}

C30_Witness ==
  /\ alert.alertCount = 1
  /\ alert.lastAlertTime = "date"
  /\ alert.cueFailures = 1

\* C25 as stated: isDrowsy rises again only after a processed frame with
\* both eyes open has set the count to 0 since the rise before.
C25_RiseOnlyAfterOpenFrame ==
  [][(~isDrowsy /\ isDrowsy' /\ risingEdges > 0) => zeroedBy = "open"]_vars

\* C25, amended: isDrowsy rises again only after the count has been set to
\* 0 since the rise before, by a processed frame with both eyes open or by
\* the reset of a start of detection.
C25_RiseOnlyAfterZeroing ==
  [][(~isDrowsy /\ isDrowsy' /\ risingEdges > 0)
       => zeroedBy \in {"open", "reset"}]_vars

C25_Witness ==
  /\ risingEdges = 2
  /\ isDrowsy
  /\ closedEyeFrameCount = CONSECUTIVE_FRAMES_THRESHOLD
  /\ zeroedBy = "none"

\* C22: after resetFrameCount, the same frame sequence gives the same
\* counts, the same results, the same tiers and the same isDrowsy values
\* frame by frame, whatever count the detector held before the reset.
C22_ReplayIdentical ==
  replay.phase = "running"
    => /\ replay.first.count = replay.second.count
       /\ replay.first.result = replay.second.result
       /\ replay.first.threw = replay.second.threw
       /\ getAlertLevel(replay.first.count) = getAlertLevel(replay.second.count)
       /\ isDrowsyAt(replay.first.count) <=> isDrowsyAt(replay.second.count)

C22_Witness ==
  /\ replay.phase = "running"
  /\ replay.left >= CONSECUTIVE_FRAMES_THRESHOLD
  /\ replay.frame = FrameId("face", "shut", "shut")
  /\ replay.first.count = CONSECUTIVE_FRAMES_THRESHOLD
  /\ replay.second.count = CONSECUTIVE_FRAMES_THRESHOLD

\* C31: alert_count never decreases during the application session:
\* no step of the application leaves alertCount smaller than it was.
C31_AlertCountNeverDecreases ==
  [][alert'.alertCount >= alert.alertCount]_vars

\* C32: a frame is handed to the pipeline only by a step taken while
\* monitoring is active, the camera is live and a capture interval is set;
\* there is never more than one capture interval set and not cleared; and
\* while monitoring is inactive there is none.
C32_CaptureOnlyWhileLive ==
  [][/\ inFlight' > inFlight =>
          isDetectionActive /\ isWebcamActive /\ captureTimer.live > 0
     /\ captureTimer'.live <= 1
     /\ ~isDetectionActive' => captureTimer'.live = 0]_vars

\* C32 witness: monitoring has been switched off after a frame was
\* captured, and the interval is cleared.
C32_Witness ==
  /\ ~isDetectionActive
  /\ inFlight > 0
  /\ captureTimer = [intervalRef |-> "null", live |-> 0]

\* C33: whenever monitoring is inactive and no camera request is pending,
\* for the current effect run or for an earlier one, no stream is held and
\* isWebcamActive is false.
C33_StoppedWhenInactive ==
  (~isDetectionActive /\ camRequest # "pending" /\ staleRequests = 0)
    => (camRequest # "held" /\ ~isWebcamActive)

\* C34: a step taken while the model is not loaded leaves isDetectionActive,
\* the closed-frame counter and the published result as they were, starts
\* no detection and reports no frame error; and the only ways such calls
\* end are the early returns of handleFrame and toggleDetection and the
\* errors 'Eye detection model not loaded' and 'Failed to load eye
\* detection model'.
C34_NothingWithoutModel ==
  [][~isLoaded =>
       /\ UNCHANGED <<isDetectionActive, closedEyeFrameCount, eyeDetectionResult,
                      inFlight, frameErrors>>
       /\ refusals' \subseteq
            refusals \cup
              (IF isLoading
               THEN {"handleFrame returned", "toggleDetection returned",
                     "Eye detection model not loaded",
                     "Failed to load eye detection model"}
               ELSE {"handleFrame returned", "toggleDetection returned",
                     "Eye detection model not loaded"})]_vars

\* C34 witness: without a model a frame has been delivered, detectEyes has
\* been called and the toggle has been pressed, and the monitoring state
\* is still the initial one.
C34_Witness ==
  /\ ~isLoaded
  /\ {"handleFrame returned", "toggleDetection returned",
      "Eye detection model not loaded"} \subseteq refusals
  /\ ~isDetectionActive
  /\ closedEyeFrameCount = 0
  /\ eyeDetectionResult = getDefaultResult(FALSE)
  /\ inFlight = 0

\* C35: isModelLoaded() is true only once loadModel has returned (App has
\* then set its own isModelLoaded and left the loading state), and the
\* detector is then set; a loadModel that failed has thrown 'Failed to load
\* eye detection model' and isModelLoaded() is false after it.
C35_LoadedOnlyAfterLoad ==
  LET failed == "Failed to load eye detection model" \in refusals IN
    /\ detectorIsModelLoaded(isLoaded) =>
          detector = "set" /\ isModelLoaded /\ ~isLoading /\ ~failed
    /\ failed => ~detectorIsModelLoaded(isLoaded) /\ ~isLoading
    /\ (~isLoading /\ ~detectorIsModelLoaded(isLoaded)) => failed

\* C35 witness: loadModel has returned and a detectEyes call has been
\* accepted by the loaded detector.
C35_Witness ==
  /\ detectorIsModelLoaded(isLoaded)
  /\ detector = "set"
  /\ ~detectEyesNotLoaded(detector, isLoaded)
  /\ inFlight > 0

====
